---- MODULE Spec2Model ----
(***************************************************************************)
(* UniversalPWA, Python SDK: the backend integrations (Django, Flask) of    *)
(* universal_pwa/backends.  A project tree on disk, two integration        *)
(* instances bound to project paths, and the operations detect(),          *)
(* generate_service_worker_config() and the version extractor.             *)
(*                                                                         *)
(* Text is a sequence of symbols.  A framework name in one letter case is  *)
(* one symbol ("Django", "django", "DJANGO", ...); every other symbol is   *)
(* one character.                                                          *)
(***************************************************************************)
EXTENDS Integers, Sequences, FiniteSets, TLC

VARIABLES
    fs,          \* project path -> entry name -> node on disk
    insts,       \* instance id -> the integration object (kind, project_path)
    pc,          \* position of the running call ("idle" between calls)
    cur,         \* id of the instance whose method runs (0 between calls)
    indicators,  \* detect(): local `indicators`
    confidence,  \* detect(): local `confidence`
    version,     \* detect(): local `version`
    result,      \* the value the finished call returned
    swResult,    \* instance id -> last configuration it returned
    content,     \* argument of the version extractor
    extracted,   \* value the version extractor returned
    request,     \* path of the request the service worker intercepts
    secureRoutes, \* instance id -> last list get_secure_routes() returned
    errors,      \* validate_setup(): local `errors`
    warnings,    \* validate_setup(): local `warnings`
    suggestions, \* validate_setup(): local `suggestions`
    heap,        \* the containers the calls built, by address
    ret,         \* the reference the last call returned
    client,      \* the UniversalPwaClient object: config and http_client
    ctor,        \* the running or finished construction: input and outcome
    call,        \* the running or finished client operation and its data
    answer,      \* what the session's post ended with
    posted,      \* what HttpClient.post returned or raised
    sent,        \* the requests handed to the session, in order
    outcome      \* what the client operation returned or raised

\* the service worker's side
routeVars == <<request, secureRoutes>>

\* the locals of validate_setup()
validateVars == <<errors, warnings, suggestions>>

\* the objects callers hold
heapVars == <<heap, ret>>

\* the SDK client and its transport
clientVars == <<client, ctor, call, answer, posted, sent, outcome>>

\* what the operations on detection leave alone
ext == <<routeVars, validateVars, heapVars, clientVars>>

vars == <<fs, insts, pc, cur, indicators, confidence, version, result,
          swResult, content, extracted, ext>>

----------------------------------------------------------------------------
(* Bounds of the model *)

\* longest text enumerated exhaustively as input of the version extractor
MaxLen == 5

\* most segments of an intercepted request path
MaxSegs == 3

\* most containers callers hold at a time
MaxObjects == 2

\* most requests a client sends
MaxSent == 2

----------------------------------------------------------------------------
(* types.py *)

LOW == "low"
MEDIUM == "medium"
HIGH == "high"
ConfidenceLevel == {LOW, MEDIUM, HIGH}

DJANGO == "django"
FLASK == "flask"
Kinds == {DJANGO, FLASK}

\* Optional[...]: the absent value
None == <<"None">>

\* no call has returned
NoResult == [tag |-> "none"]

----------------------------------------------------------------------------
(* Text *)

DjangoNames == {"Django", "django", "DJANGO"}
FlaskNames == {"Flask", "flask", "FLASK"}
OpChars == {">", "=", "<", "~", "!"}
Digits == {"0", "1", "2", "3", "4", "5", "6", "7", "8", "9"}

\* str.lower() on one symbol
LowerSym(c) ==
    IF c \in DjangoNames THEN "django"
    ELSE IF c \in FlaskNames THEN "flask"
    ELSE c

\* str.lower()
Lower(s) == [i \in 1..Len(s) |-> LowerSym(s[i])]

\* Python `needle in s` for a one-symbol needle
Contains(needle, s) == \E i \in 1..Len(s) : s[i] = needle

----------------------------------------------------------------------------
(* The project tree *)

Paths == {"/p1", "/p2"}

Entries == {"manage.py", "settings.py", "settings", "urls.py",
            "requirements.txt", "pyproject.toml",
            "app.py", "application.py", "templates", "static"}

Manifests == {"requirements.txt", "pyproject.toml"}

\* a node: nothing, a directory, a UTF-8 text file, or a file whose bytes
\* are not valid UTF-8
Absent == [kind |-> "absent", text |-> <<>>]
Dir == [kind |-> "dir", text |-> <<>>]
File(t) == [kind |-> "file", text |-> t]
Binary == [kind |-> "binary", text |-> <<>>]

EmptyTree == [e \in Entries |-> Absent]

\* texts written to the dependency manifests
ManifestTexts ==
    { <<"x", "=", "=", "2">>,
      <<"Django", "=", "=", "4", ".", "2", ".", "0", "\n", "x", "=", "=", "2">>,
      <<"django">>,
      <<"DJANGO", ">", "=", "4", ".", "0">>,
      <<"Flask", "=", "=", "2", ".", "3", ".", "0">>,
      <<"FLASK">> }

\* what may stand at an entry
NodesOf(e) ==
    IF e \in Manifests
    THEN {Absent, Binary} \cup {File(t) : t \in ManifestTexts}
    ELSE IF e = "settings"
    THEN {Absent, Dir, File(<<>>)}
    ELSE IF e \in {"templates", "static"}
    THEN {Absent, Dir}
    ELSE {Absent, File(<<>>)}

\* outcome of the stat() call behind Path.exists() / Path.is_dir():
\* it answers, or fails with an OSError that pathlib re-raises (EACCES, EIO)
StatOutcomes == {"ok", "oserror"}

\* BaseBackendIntegration._file_exists, when stat() answers
_file_exists(self, path) == fs[self.project_path][path].kind # "absent"

\* _dir_exists with Path.exists() in place of Path.is_dir()
DirExistsAsExists(self, path) == fs[self.project_path][path].kind # "absent"

\* BaseBackendIntegration._dir_exists, when stat() answers
_dir_exists(self, path) == fs[self.project_path][path].kind = "dir"

\* BaseBackendIntegration._read_file: the text, or an exception raised
\* (missing file, directory, undecodable bytes)
_read_file(self, path) ==
    LET n == fs[self.project_path][path]
    IN  IF n.kind = "file"
        THEN [raised |-> FALSE, text |-> n.text]
        ELSE [raised |-> TRUE, text |-> <<>>]

----------------------------------------------------------------------------
(* django.py: the version extractor *)

RECURSIVE RunEnd(_, _, _)
\* index just after the longest run of symbols of S that starts at j
\* (a greedy [..]* or \d+ tried at j)
RunEnd(s, j, S) ==
    IF j <= Len(s) /\ s[j] \in S THEN RunEnd(s, j + 1, S) ELSE j

\* the optional group (?:\.(\d+))? tried at j: the index just after it,
\* or j when it does not match
OptGroupEnd(s, j) ==
    IF j <= Len(s) /\ s[j] = "." /\ RunEnd(s, j + 1, Digits) > j + 1
    THEN RunEnd(s, j + 1, Digits)
    ELSE j

\* the pattern Django[>=<~!]*(\d+)(?:\.(\d+))?(?:\.(\d+))? under
\* re.IGNORECASE, tried at position i of s
MatchAt(s, i) ==
    LET a == RunEnd(s, i + 1, OpChars)
        b == RunEnd(s, a, Digits)
        c == OptGroupEnd(s, b)
        d == OptGroupEnd(s, c)
    IN  [ok |-> LowerSym(s[i]) = "django" /\ b > a,
         g1 |-> SubSeq(s, a, b - 1),
         g2 |-> IF c > b THEN SubSeq(s, b + 1, c - 1) ELSE None,
         g3 |-> IF d > c THEN SubSeq(s, c + 1, d - 1) ELSE None]

RECURSIVE re_search_last(_, _)
\* a search that keeps the rightmost match instead of the leftmost
re_search_last(s, i) ==
    IF i > Len(s) THEN 0
    ELSE IF re_search_last(s, i + 1) # 0 THEN re_search_last(s, i + 1)
    ELSE IF MatchAt(s, i).ok THEN i
    ELSE 0

RECURSIVE re_search(_, _)
\* re.search: the leftmost position at or after i where the pattern
\* matches, 0 when there is none
re_search(s, i) ==
    IF i > Len(s) THEN 0
    ELSE IF MatchAt(s, i).ok THEN i
    ELSE re_search(s, i + 1)

\* the extractor without the "0" defaults: omitted components are left out
ExtractWithoutDefaults(text) ==
    LET i == re_search(text, 1)
    IN  IF i # 0
        THEN LET m == MatchAt(text, i)
             IN  m.g1
                 \o (IF m.g2 # None THEN <<".">> \o m.g2 ELSE <<>>)
                 \o (IF m.g3 # None THEN <<".">> \o m.g3 ELSE <<>>)
        ELSE None

\* DjangoIntegration._extract_django_version_from_requirements
_extract_django_version_from_requirements(text) ==
    LET i == re_search(text, 1)
    IN  IF i # 0
        THEN LET m == MatchAt(text, i)
                 major == m.g1
                 minor == IF m.g2 # None THEN m.g2 ELSE <<"0">>
                 patch == IF m.g3 # None THEN m.g3 ELSE <<"0">>
             IN  major \o <<".">> \o minor \o <<".">> \o patch
        ELSE None

----------------------------------------------------------------------------
(* detect(): the locals and the evidence checks *)

\* the locals of a detect() run, as one value
Locals == [indicators |-> indicators, confidence |-> confidence,
           version |-> version]

\* indicators = [], confidence = LOW, version = None
DetectLocals == [indicators |-> <<>>, confidence |-> LOW, version |-> None]

\* the escalation without its test of the current level
EscalateUnguarded(c) == HIGH

\* if confidence == ConfidenceLevel.MEDIUM: confidence = ConfidenceLevel.HIGH
Escalate(c) == IF c = MEDIUM THEN HIGH ELSE c

\* a corroborating signal that raises the level by one from LOW as well
CorroborateFromLow(st, label) ==
    [st EXCEPT !.indicators = Append(@, label),
               !.confidence = IF @ = LOW THEN MEDIUM ELSE HIGH]

\* indicators.append(label) and the escalation that follows it
Corroborate(st, label) ==
    [st EXCEPT !.indicators = Append(@, label),
               !.confidence = Escalate(@)]

\* Django: manage.py (strong indicator)
DjangoManage(self, st) ==
    IF _file_exists(self, "manage.py")
    THEN [st EXCEPT !.indicators = Append(@, "manage.py"),
                    !.confidence = MEDIUM]
    ELSE st

\* Django: settings.py or settings/ directory
DjangoSettings(self, st) ==
    IF _file_exists(self, "settings.py") \/ _dir_exists(self, "settings")
    THEN Corroborate(st, "settings.py or settings/")
    ELSE st

\* Django: urls.py, its label put in front of the indicators found so far
DjangoUrlsInFront(self, st) ==
    IF _file_exists(self, "urls.py")
    THEN [st EXCEPT !.indicators = <<"urls.py">> \o @,
                    !.confidence = Escalate(@)]
    ELSE st

\* Django: urls.py
DjangoUrls(self, st) ==
    IF _file_exists(self, "urls.py")
    THEN Corroborate(st, "urls.py")
    ELSE st

\* Django: the token test on requirements.txt
DjangoInRequirements(text) ==
    Contains("Django", text) \/ Contains("django", text)

\* Django: requirements.txt; an exception of the read is swallowed
DjangoRequirements(self, st) ==
    IF _file_exists(self, "requirements.txt")
    THEN LET r == _read_file(self, "requirements.txt")
         IN  IF ~r.raised /\ DjangoInRequirements(r.text)
             THEN [Corroborate(st, "requirements.txt: Django") EXCEPT
                     !.version =
                         _extract_django_version_from_requirements(r.text)]
             ELSE st
    ELSE st

\* Django: the token test on pyproject.toml
DjangoInPyproject(text) == Contains("django", Lower(text))

\* Django: pyproject.toml; an exception of the read is swallowed
DjangoPyproject(self, st) ==
    IF _file_exists(self, "pyproject.toml")
    THEN LET r == _read_file(self, "pyproject.toml")
         IN  IF ~r.raised /\ DjangoInPyproject(r.text)
             THEN Corroborate(st, "pyproject.toml: django")
             ELSE st
    ELSE st

\* Flask: app.py or application.py counted as one more corroborating signal
FlaskAppAsCorroborating(self, st) ==
    IF _file_exists(self, "app.py") \/ _file_exists(self, "application.py")
    THEN Corroborate(st, "app.py or application.py")
    ELSE st

\* Flask: app.py or application.py
FlaskApp(self, st) ==
    IF _file_exists(self, "app.py") \/ _file_exists(self, "application.py")
    THEN [st EXCEPT !.indicators = Append(@, "app.py or application.py"),
                    !.confidence = MEDIUM]
    ELSE st

\* Flask: the token test on requirements.txt
FlaskInRequirements(text) ==
    Contains("Flask", text) \/ Contains("flask", text)

\* Flask: requirements.txt; an exception of the read is swallowed
FlaskRequirements(self, st) ==
    IF _file_exists(self, "requirements.txt")
    THEN LET r == _read_file(self, "requirements.txt")
         IN  IF ~r.raised /\ FlaskInRequirements(r.text)
             THEN Corroborate(st, "requirements.txt: Flask")
             ELSE st
    ELSE st

\* Flask: templates/ or static/
FlaskStructure(self, st) ==
    IF _dir_exists(self, "templates") \/ _dir_exists(self, "static")
    THEN Corroborate(st, "Flask structure (templates/ or static/)")
    ELSE st

\* the returned dict with detected taken from the confidence level
DetectionResultByConfidence(self, st) ==
    [tag |-> "detection",
     detected |-> st.confidence # LOW,
     confidence |-> st.confidence,
     indicators |-> st.indicators,
     version |-> IF self.kind = DJANGO THEN st.version ELSE None]

\* the dict detect() returns; Flask returns "version": None
DetectionResult(self, st) ==
    [tag |-> "detection",
     detected |-> Len(st.indicators) > 0,
     confidence |-> st.confidence,
     indicators |-> st.indicators,
     version |-> IF self.kind = DJANGO THEN st.version ELSE None]

----------------------------------------------------------------------------
(* generate_service_worker_config() *)

\* DjangoIntegration.generate_service_worker_config: the literal it builds
DjangoServiceWorkerConfig ==
    [precache |-> <<>>,
     runtime_caching |->
        << [urlPattern |-> "/static/**", handler |-> "CacheFirst",
            options |-> [cacheName |-> "django-static-cache",
                         expiration |-> [maxEntries |-> 100,
                                         maxAgeSeconds |-> 86400 * 30]]],
           [urlPattern |-> "/media/**", handler |-> "CacheFirst",
            options |-> [cacheName |-> "django-media-cache",
                         expiration |-> [maxEntries |-> 50,
                                         maxAgeSeconds |-> 86400 * 7]]],
           [urlPattern |-> "/api/**", handler |-> "NetworkFirst",
            options |-> [cacheName |-> "django-api-cache",
                         networkTimeoutSeconds |-> 3,
                         expiration |-> [maxEntries |-> 50,
                                         maxAgeSeconds |-> 300]]],
           [urlPattern |-> "/admin/**", handler |-> "NetworkOnly",
            options |-> [cacheName |-> "django-admin-cache"]] >>,
     skip_waiting |-> TRUE,
     clients_claim |-> TRUE,
     navigation_preload |-> FALSE]

\* FlaskIntegration.generate_service_worker_config: the literal it builds
FlaskServiceWorkerConfig ==
    [precache |-> <<>>,
     runtime_caching |->
        << [urlPattern |-> "/static/**", handler |-> "CacheFirst",
            options |-> [cacheName |-> "flask-static-cache",
                         expiration |-> [maxEntries |-> 100,
                                         maxAgeSeconds |-> 86400 * 30]]],
           [urlPattern |-> "/api/**", handler |-> "NetworkFirst",
            options |-> [cacheName |-> "flask-api-cache",
                         networkTimeoutSeconds |-> 3,
                         expiration |-> [maxEntries |-> 50,
                                         maxAgeSeconds |-> 300]]] >>,
     skip_waiting |-> TRUE,
     clients_claim |-> TRUE,
     navigation_preload |-> FALSE]

\* a configuration that precaches the static directory when the project
\* has one: no longer a function of the kind alone
ConfigFromProjectTree(self) ==
    [(IF self.kind = DJANGO
      THEN DjangoServiceWorkerConfig
      ELSE FlaskServiceWorkerConfig)
     EXCEPT !.precache = IF _dir_exists(self, "static")
                         THEN <<"/static/">>
                         ELSE <<>>]

\* a configuration whose static rule is the catch-all /**, declared before
\* every other rule
ConfigStaticCatchAll(self) ==
    [(IF self.kind = DJANGO
      THEN DjangoServiceWorkerConfig
      ELSE FlaskServiceWorkerConfig)
     EXCEPT !.runtime_caching[1].urlPattern = "/**"]

\* generate_service_worker_config, dispatched on the class of self
generate_service_worker_config(self) ==
    IF self.kind = DJANGO
    THEN DjangoServiceWorkerConfig
    ELSE FlaskServiceWorkerConfig

----------------------------------------------------------------------------
(* validate_setup(): the locals and the checks *)

\* Python `token in content` on a settings text: the token is a symbol of
\* the text, or a substring of a longer identifier
InSettings(token, text) ==
    \E i \in 1..Len(text) :
        \/ text[i] = token
        \/ text[i] = "OLD_STATIC_URL_2" /\ token = "STATIC_URL"

\* the locals of a validate_setup() run, as one value
ValidateState == [errors |-> errors, warnings |-> warnings,
                  suggestions |-> suggestions]

\* errors = [], warnings = [], suggestions = []
ValidateLocals == [errors |-> <<>>, warnings |-> <<>>, suggestions |-> <<>>]

\* Django: settings.py or settings/ must exist
DjangoValidateSettings(self, st) ==
    IF ~_file_exists(self, "settings.py") /\ ~_dir_exists(self, "settings")
    THEN [st EXCEPT !.errors =
            Append(@, "Django settings.py or settings/ directory not found")]
    ELSE st

\* Django: the static files configuration with a missing STATIC_URL
\* counted among the errors
DjangoValidateStaticAsError(self, st) ==
    IF _file_exists(self, "settings.py")
    THEN LET r == _read_file(self, "settings.py")
         IN  IF r.raised THEN st
             ELSE [st EXCEPT
                     !.errors =
                        IF ~InSettings("STATIC_URL", r.text)
                        THEN Append(@, "STATIC_URL not found in settings.py")
                        ELSE @,
                     !.suggestions =
                        IF ~InSettings("STATIC_ROOT", r.text)
                        THEN Append(@,
                               "Consider setting STATIC_ROOT for production")
                        ELSE @]
    ELSE st

\* Django: the static files configuration in settings.py; an exception of
\* the read is swallowed
DjangoValidateStatic(self, st) ==
    IF _file_exists(self, "settings.py")
    THEN LET r == _read_file(self, "settings.py")
         IN  IF r.raised THEN st
             ELSE [st EXCEPT
                     !.warnings =
                        IF ~InSettings("STATIC_URL", r.text)
                        THEN Append(@, "STATIC_URL not found in settings.py")
                        ELSE @,
                     !.suggestions =
                        IF ~InSettings("STATIC_ROOT", r.text)
                        THEN Append(@,
                               "Consider setting STATIC_ROOT for production")
                        ELSE @]
    ELSE st

\* Django: urls.py
DjangoValidateUrls(self, st) ==
    IF ~_file_exists(self, "urls.py")
    THEN [st EXCEPT !.warnings =
            Append(@, "urls.py not found in project root")]
    ELSE st

\* Flask: app.py or application.py
FlaskValidateApp(self, st) ==
    IF ~_file_exists(self, "app.py") /\ ~_file_exists(self, "application.py")
    THEN [st EXCEPT !.warnings =
            Append(@, "app.py or application.py not found")]
    ELSE st

\* a report that is valid only when nothing at all was found
ValidationResultStrict(st) ==
    [tag |-> "validation",
     isValid |-> Len(st.errors) = 0 /\ Len(st.warnings) = 0,
     errors |-> st.errors,
     warnings |-> st.warnings,
     suggestions |-> st.suggestions]

\* the dict validate_setup() returns
ValidationResult(st) ==
    [tag |-> "validation",
     isValid |-> Len(st.errors) = 0,
     errors |-> st.errors,
     warnings |-> st.warnings,
     suggestions |-> st.suggestions]

----------------------------------------------------------------------------
(* base.py: the route glob helpers *)

\* BaseBackendIntegration.get_secure_routes
get_secure_routes(self) == <<"/admin/**", "/api/auth/**", "/dashboard/**">>

\* BaseBackendIntegration.get_api_patterns
get_api_patterns(self) == <<"/api/**", "/json/**", "/graphql/**">>

\* BaseBackendIntegration.get_static_asset_patterns
get_static_asset_patterns(self) ==
    <<"/assets/**", "/public/**", "/static/**",
      "**/*.{js,css,png,jpg,svg,webp,woff,woff2}">>

----------------------------------------------------------------------------
(* The value each operation returns when it returns *)

\* DjangoIntegration.get_start_url, FlaskIntegration.get_start_url
get_start_url(self) == "/"

\* generate_manifest_variables: the dict literal of either integration
generate_manifest_variables(self) ==
    [start_url |-> get_start_url(self),
     scope |-> "/",
     display |-> "standalone",
     theme_color |-> "#ffffff",
     background_color |-> "#ffffff"]

\* BaseBackendIntegration._get_default_middleware_code
_get_default_middleware_code(self) == "# Add PWA middleware here"

\* BaseBackendIntegration._get_default_middleware_path
_get_default_middleware_path(self) == "middleware/pwa.py"

\* BaseBackendIntegration.inject_middleware; language is PYTHON for both
inject_middleware(self) ==
    [code |-> _get_default_middleware_code(self),
     path |-> _get_default_middleware_path(self),
     language |-> "python",
     instructions |->
        <<"Add the following code to middleware/pwa.py",
          "Restart your server",
          "The PWA routes will be automatically available">>]

\* detect() from its first line to its return, every stat() answering:
\* what an instance constructed now returns on the tree as it is now
FreshDetect(self) ==
    LET new == [indicators |-> <<>>, confidence |-> LOW, version |-> None]
    IN  IF self.kind = DJANGO
        THEN DetectionResult(self,
                DjangoPyproject(self,
                  DjangoRequirements(self,
                    DjangoUrls(self,
                      DjangoSettings(self,
                        DjangoManage(self, new))))))
        ELSE DetectionResult(self,
                FlaskStructure(self,
                  FlaskRequirements(self,
                    FlaskApp(self, new))))

\* validate_setup() from its first line to its return, every stat()
\* answering
FreshValidate(self) ==
    LET new == [errors |-> <<>>, warnings |-> <<>>, suggestions |-> <<>>]
    IN  IF self.kind = DJANGO
        THEN ValidationResult(
                DjangoValidateUrls(self,
                  DjangoValidateStatic(self,
                    DjangoValidateSettings(self, new))))
        ELSE ValidationResult(FlaskValidateApp(self, new))

\* the public operations that return a container
Ops == {"detect", "validate_setup", "generate_service_worker_config",
        "generate_manifest_variables", "inject_middleware",
        "get_secure_routes", "get_api_patterns", "get_static_asset_patterns"}

\* the value the return statement of op builds
Returned(op, self) ==
    CASE op = "detect" -> FreshDetect(self)
      [] op = "validate_setup" -> FreshValidate(self)
      [] op = "generate_service_worker_config" ->
            generate_service_worker_config(self)
      [] op = "generate_manifest_variables" ->
            generate_manifest_variables(self)
      [] op = "inject_middleware" -> inject_middleware(self)
      [] op = "get_secure_routes" -> get_secure_routes(self)
      [] op = "get_api_patterns" -> get_api_patterns(self)
      [] op = "get_static_asset_patterns" -> get_static_asset_patterns(self)

\* the address of a container built once per class and operation and
\* handed out by every call
SharedContainer(op, self) ==
    IF \E a \in 1..Len(heap) : heap[a].op = op /\ heap[a].kind = self.kind
    THEN CHOOSE a \in 1..Len(heap) :
            heap[a].op = op /\ heap[a].kind = self.kind
    ELSE Len(heap) + 1

\* the list and dict displays of a return statement are evaluated at each
\* call: the container is a new object, at an address not in use
NewContainer(op, self) == Len(heap) + 1

----------------------------------------------------------------------------
(* config.py: Config *)

\* Python None as the value of an Optional[str] field
Unset == "None"

\* the fields of Config that have a default, with it
ConfigDefaults ==
    [app_name |-> Unset,
     app_description |-> Unset,
     app_theme_color |-> "#000000",
     app_background_color |-> "#FFFFFF",
     app_start_url |-> "/",
     app_scope |-> "/",
     auto_detect_backend |-> TRUE,
     backend |-> Unset,
     generate_icons |-> TRUE,
     generate_splash_screens |-> FALSE,
     icon_source |-> Unset,
     caching_strategy |-> "balanced",
     output_dir |-> Unset,
     manifest_path |-> "public/manifest.json",
     service_worker_path |-> "public/sw.js",
     api_endpoint |-> "http://localhost:3000",
     timeout |-> 30]

\* pattern="^(django|flask|fastapi|laravel|symfony)$"
BackendPattern == {"django", "flask", "fastapi", "laravel", "symfony"}

\* pattern="^(aggressive|balanced|conservative)$"
CachingStrategyPattern == {"aggressive", "balanced", "conservative"}

\* a dict has the key
Has(d, k) == k \in DOMAIN d

\* the field validation of Config(**d): project_root is required, timeout
\* has ge=1 and le=300, backend and caching_strategy have patterns
ConfigValid(d) ==
    /\ Has(d, "project_root")
    /\ Has(d, "timeout") => (d.timeout >= 1 /\ d.timeout <= 300)
    /\ Has(d, "backend") => d.backend \in BackendPattern \cup {Unset}
    /\ Has(d, "caching_strategy") =>
          d.caching_strategy \in CachingStrategyPattern

\* Config(**d) for a valid d: the model object, as its field values
Config(d) ==
    [k \in DOMAIN ConfigDefaults \cup {"project_root"} |->
        IF Has(d, k) THEN d[k] ELSE ConfigDefaults[k]]

\* Config.model_dump(): a new dict of the field values
model_dump(config) == config

----------------------------------------------------------------------------
(* http.py: HttpClient *)

\* api_endpoint.rstrip("/")
RStripSlash(u) == IF u = "http://localhost:3000/" THEN "http://localhost:3000"
                  ELSE u

\* HttpClient.__init__
HttpClient(api_endpoint, timeout) ==
    [api_endpoint |-> RStripSlash(api_endpoint), timeout |-> timeout]

\* requests.exceptions.Timeout and its subclasses
TimeoutErrors == {"ConnectTimeout", "ReadTimeout"}

\* requests.exceptions.ConnectionError and its subclasses; ConnectTimeout
\* is a subclass of both
ConnectionErrors == {"ConnectionError", "ConnectTimeout"}

\* no response body
NoBody == [text |-> "", shape |-> "none", keys |-> {}]

\* what HttpClient.post gives its caller: the exception it raises, with
\* the status code and the body text its message carries (0 and "" when
\* it carries none), or the parsed JSON it returns
Raise(exc, status, text) ==
    [raised |-> exc, status |-> status, text |-> text, value |-> NoBody]

Return(value) == [raised |-> "None", status |-> 0, text |-> "", value |-> value]

\* Response.raise_for_status raises HTTPError
IsHttpError(status) == status >= 400 /\ status < 600

\* HttpClient.post, given what session.post ended with: an exception of
\* requests, or a final response
post(self, path, data, a) ==
    IF a.kind \in TimeoutErrors
    THEN Raise("TimeoutException", 0, "")
    ELSE IF a.kind \in ConnectionErrors
    THEN Raise("ApiUnreachableException", 0, "")
    ELSE IF a.kind # "response"
    THEN Raise("HttpException", 0, "")
    ELSE IF IsHttpError(a.status)
    THEN Raise("HttpException", a.status, a.body.text)
    ELSE IF a.body.shape = "invalid"
    THEN Raise("HttpException", 0, "")
    ELSE Return(a.body)

----------------------------------------------------------------------------
(* client.py: UniversalPwaClient *)

ClientOps == {"scan", "generate", "validate"}

\* the path each operation posts to
ApiPath(op) ==
    CASE op = "scan" -> "/api/scan"
      [] op = "generate" -> "/api/generate"
      [] op = "validate" -> "/api/validate"

\* the exception each operation raises
OpException(op) ==
    CASE op = "scan" -> "ScanException"
      [] op = "generate" -> "GenerationException"
      [] op = "validate" -> "ValidationException"

\* the required fields of ScanResult, GenerationResult, ValidationResult
RequiredKeys(op) ==
    CASE op = "scan" -> {"framework", "features", "assets"}
      [] op = "generate" -> {"success", "manifest", "service_worker"}
      [] op = "validate" -> {"valid", "score"}

\* merged = self.config.model_dump(); if config: merged.update(config)
Merged(config, override) ==
    LET merged == model_dump(config)
    IN  [k \in DOMAIN merged \cup DOMAIN override |->
            IF Has(override, k) THEN override[k] ELSE merged[k]]

\* request_data of each operation
RequestData(op, config, override) ==
    CASE op = "scan" ->
            [projectRoot |-> config.project_root,
             autoDetectBackend |-> config.auto_detect_backend]
      [] op = "generate" -> [config |-> Merged(config, override)]
      [] op = "validate" -> [projectRoot |-> config.project_root]

\* XResult(**response) raises: the response is no JSON object, or lacks a
\* required field
ResultRaises(op, value) ==
    value.shape # "object" \/ ~(RequiredKeys(op) \subseteq value.keys)

\* what an operation gives its caller
Failed(exc) == [raised |-> exc, value |-> NoBody]

\* an operation whose handler catches the transport's exceptions only:
\* the error of a malformed response leaves it as it is
ClientResultTransportOnly(op, p) ==
    IF p.raised # "None" THEN Failed(OpException(op))
    ELSE IF ResultRaises(op, p.value) THEN Failed("ValidationError")
    ELSE [raised |-> "None", value |-> p.value]

\* try: ... return XResult(**response) except Exception as e: raise
\* XException(...)
ClientResult(op, p) ==
    IF p.raised # "None" THEN Failed(OpException(op))
    ELSE IF ResultRaises(op, p.value) THEN Failed(OpException(op))
    ELSE [raised |-> "None", value |-> p.value]

----------------------------------------------------------------------------
(* State machine *)

InstIds == {1, 2}

\* BaseBackendIntegration.__init__: self.project_path = Path(project_path)
Integration(kind, project_path) ==
    [kind |-> kind, project_path |-> project_path]

\* the read-only identity properties of the two classes: id, name,
\* framework, language
Identity(self) ==
    IF self.kind = DJANGO
    THEN [id |-> "django", name |-> "Django", framework |-> "DJANGO",
          language |-> "PYTHON"]
    ELSE [id |-> "flask", name |-> "Flask", framework |-> "FLASK",
          language |-> "PYTHON"]

\* extractor not applied yet
NotRun == <<"NotRun">>

\* what every initial state shares
InitCommon ==
    /\ fs = [p \in Paths |-> EmptyTree]
    /\ pc = "idle"
    /\ cur = 0
    /\ indicators = <<>>
    /\ confidence = LOW
    /\ version = None
    /\ result = NoResult
    /\ swResult = [i \in InstIds |-> NoResult]
    /\ extracted = NotRun
    /\ secureRoutes = [i \in InstIds |-> NoResult]
    /\ errors = <<>>
    /\ warnings = <<>>
    /\ suggestions = <<>>
    /\ heap = <<>>
    /\ ret = NoResult
    /\ client = NoResult
    /\ ctor = NoResult
    /\ call = NoResult
    /\ answer = NoResult
    /\ posted = NoResult
    /\ sent = <<>>
    /\ outcome = NoResult

\* a Django and a Flask integration constructed on the same project
Init ==
    /\ InitCommon
    /\ insts = [i \in InstIds |->
                  Integration(IF i = 1 THEN DJANGO ELSE FLASK, "/p1")]
    /\ content = <<>>
    /\ request = <<>>

\* the test or the user changes one entry of a project tree, between calls
FsWrite(p, e, n) ==
    /\ pc = "idle"
    /\ n # fs[p][e]
    /\ fs' = [fs EXCEPT ![p][e] = n]
    /\ UNCHANGED <<insts, pc, cur, indicators, confidence, version, result,
                   swResult, content, extracted,
                   ext>>

\* detect() with its three locals kept from the run before, as they would
\* be were they attributes initialised once
DetectKeepingLocals(i) ==
    /\ pc = "idle"
    /\ cur' = i
    /\ pc' = IF insts[i].kind = DJANGO THEN "dj_manage" ELSE "fl_app"
    /\ UNCHANGED <<fs, insts, indicators, confidence, version, result,
                   swResult, content, extracted, ext>>

\* detect() is called on instance i: lines 57-59 / 49-50
Detect(i) ==
    /\ pc = "idle"
    /\ cur' = i
    /\ pc' = IF insts[i].kind = DJANGO THEN "dj_manage" ELSE "fl_app"
    /\ indicators' = DetectLocals.indicators
    /\ confidence' = DetectLocals.confidence
    /\ version' = DetectLocals.version
    /\ UNCHANGED <<fs, insts, result, swResult, content, extracted,
                   ext>>

\* one evidence check of the running detect(): the existence test's stat()
\* either answers, and the check yields the locals st, or fails with an
\* OSError, which no handler of detect() catches
Check(at, nxt, st, stat) ==
    /\ pc = at
    /\ IF stat = "ok"
       THEN /\ pc' = nxt
            /\ indicators' = st.indicators
            /\ confidence' = st.confidence
            /\ version' = st.version
       ELSE /\ pc' = "raised"
            /\ indicators' = <<>>
            /\ confidence' = LOW
            /\ version' = None
    /\ UNCHANGED <<fs, insts, cur, result, swResult, content, extracted,
                   ext>>

DjangoCheckManage(stat) ==
    Check("dj_manage", "dj_settings", DjangoManage(insts[cur], Locals), stat)

DjangoCheckSettings(stat) ==
    Check("dj_settings", "dj_urls", DjangoSettings(insts[cur], Locals), stat)

DjangoCheckUrls(stat) ==
    Check("dj_urls", "dj_requirements", DjangoUrls(insts[cur], Locals), stat)

DjangoCheckRequirements(stat) ==
    Check("dj_requirements", "dj_pyproject",
          DjangoRequirements(insts[cur], Locals), stat)

DjangoCheckPyproject(stat) ==
    Check("dj_pyproject", "return", DjangoPyproject(insts[cur], Locals), stat)

FlaskCheckApp(stat) ==
    Check("fl_app", "fl_requirements", FlaskApp(insts[cur], Locals), stat)

FlaskCheckRequirements(stat) ==
    Check("fl_requirements", "fl_structure",
          FlaskRequirements(insts[cur], Locals), stat)

FlaskCheckStructure(stat) ==
    Check("fl_structure", "return", FlaskStructure(insts[cur], Locals), stat)

\* the return statement of detect()
DetectReturn ==
    /\ pc = "return"
    /\ pc' = "returned"
    /\ result' = DetectionResult(insts[cur], Locals)
    /\ UNCHANGED <<fs, insts, cur, indicators, confidence, version,
                   swResult, content, extracted,
                   ext>>

\* the caller takes the returned value, or the exception, and goes on
CallerResumes ==
    /\ pc \in {"returned", "raised"}
    /\ pc' = "idle"
    /\ cur' = 0
    /\ indicators' = <<>>
    /\ confidence' = LOW
    /\ version' = None
    /\ result' = NoResult
    /\ errors' = <<>>
    /\ warnings' = <<>>
    /\ suggestions' = <<>>
    /\ UNCHANGED <<fs, insts, swResult, content, extracted, routeVars,
                   heapVars, clientVars>>

\* the caller keeps the returned value and goes on; nothing of the
\* finished call is cleared
CallerKeeps ==
    /\ pc \in {"returned", "raised"}
    /\ pc' = "idle"
    /\ UNCHANGED <<fs, insts, cur, indicators, confidence, version, result,
                   swResult, content, extracted, ext>>

\* operation op is called on instance i and returns a reference to the
\* container its return statement built
Call(i, op) ==
    /\ pc = "idle"
    /\ Len(heap) < MaxObjects
    /\ LET a == NewContainer(op, insts[i])
       IN  /\ heap' = IF a > Len(heap)
                       THEN Append(heap, [op |-> op,
                                          kind |-> insts[i].kind,
                                          mutated |-> FALSE,
                                          value |-> Returned(op, insts[i])])
                       ELSE heap
           /\ ret' = [ref |-> a, op |-> op, inst |-> i]
    /\ pc' = "returned"
    /\ UNCHANGED <<fs, insts, cur, indicators, confidence, version, result,
                   swResult, content, extracted, routeVars, validateVars,
                   clientVars>>

\* what a caller can make of a returned container by one mutation
Mutations(op, v) ==
    CASE op = "detect" -> {[v EXCEPT !.indicators = Append(@, "x")]}
      [] op = "validate_setup" -> {[v EXCEPT !.errors = Append(@, "x")]}
      [] op = "generate_service_worker_config" ->
            {[v EXCEPT !.runtime_caching = Tail(@)],
             [v EXCEPT !.runtime_caching[1].handler = "NetworkOnly"]}
      [] op = "generate_manifest_variables" ->
            {[v EXCEPT !.start_url = "/x"]}
      [] op = "inject_middleware" -> {[v EXCEPT !.instructions = Tail(@)]}
      [] OTHER -> {Append(v, "/x/**"), Tail(v)}

\* the caller mutates a container it was given
Mutate(a, v) ==
    /\ pc = "idle"
    /\ ~heap[a].mutated
    /\ heap' = [heap EXCEPT ![a].value = v, ![a].mutated = TRUE]
    /\ UNCHANGED <<fs, insts, pc, cur, indicators, confidence, version,
                   result, swResult, content, extracted, routeVars,
                   validateVars, ret, clientVars>>

\* UniversalPwaClient(d) is called with the dict d
Construct(d) ==
    /\ pc = "idle"
    /\ ctor = NoResult
    /\ ctor' = [input |-> d, raised |-> "None", done |-> FALSE]
    /\ pc' = "ct_config"
    /\ UNCHANGED <<fs, insts, cur, indicators, confidence, version, result,
                   swResult, content, extracted, routeVars, validateVars,
                   heapVars, client, call, answer, posted, sent, outcome>>

\* self.config = Config(**config): pydantic raises its ValidationError
ConstructConfig ==
    /\ pc = "ct_config"
    /\ IF ConfigValid(ctor.input)
       THEN /\ client' = [config |-> Config(ctor.input),
                          http_client |-> NoResult]
            /\ pc' = "ct_root"
            /\ ctor' = ctor
       ELSE /\ ctor' = [ctor EXCEPT !.raised = "ValidationError"]
            /\ pc' = "raised"
            /\ client' = client
    /\ UNCHANGED <<fs, insts, cur, indicators, confidence, version, result,
                   swResult, content, extracted, routeVars, validateVars,
                   heapVars, call, answer, posted, sent, outcome>>

\* if not project_path.exists(): raise ConfigException; the stat() behind
\* exists() answers or fails with an OSError that pathlib re-raises
ConstructRoot(stat) ==
    /\ pc = "ct_root"
    /\ IF stat = "oserror"
       THEN /\ ctor' = [ctor EXCEPT !.raised = "PermissionError"]
            /\ pc' = "raised"
       ELSE IF client.config.project_root \notin DOMAIN fs
       THEN /\ ctor' = [ctor EXCEPT !.raised = "ConfigException"]
            /\ pc' = "raised"
       ELSE /\ ctor' = ctor
            /\ pc' = "ct_http"
    /\ UNCHANGED <<fs, insts, cur, indicators, confidence, version, result,
                   swResult, content, extracted, routeVars, validateVars,
                   heapVars, client, call, answer, posted, sent, outcome>>

\* self.http_client = HttpClient(...), and the constructor returns
ConstructHttp ==
    /\ pc = "ct_http"
    /\ client' = [client EXCEPT
                    !.http_client = HttpClient(client.config.api_endpoint,
                                               client.config.timeout)]
    /\ ctor' = [ctor EXCEPT !.done = TRUE]
    /\ pc' = "returned"
    /\ UNCHANGED <<fs, insts, cur, indicators, confidence, version, result,
                   swResult, content, extracted, routeVars, validateVars,
                   heapVars, call, answer, posted, sent, outcome>>

\* generate(override) that merges into the client's own configuration, as
\* it would were merged the model's field dict and not a dump of it
ClientCallUpdatingConfig(op, override) ==
    /\ pc = "idle"
    /\ ctor # NoResult
    /\ ctor.done
    /\ Len(sent) < MaxSent
    /\ call' = [op |-> op,
                override |-> override,
                data |-> RequestData(op, client.config, override)]
    /\ client' = IF op = "generate"
                 THEN [client EXCEPT
                         !.config = Merged(client.config, override)]
                 ELSE client
    /\ answer' = NoResult
    /\ posted' = NoResult
    /\ outcome' = NoResult
    /\ pc' = "cl_post"
    /\ UNCHANGED <<fs, insts, cur, indicators, confidence, version, result,
                   swResult, content, extracted, routeVars, validateVars,
                   heapVars, ctor, sent>>

\* scan(), generate(override) or validate() is called with its argument:
\* request_data
ClientCall(op, override) ==
    /\ pc = "idle"
    /\ ctor # NoResult
    /\ ctor.done
    /\ Len(sent) < MaxSent
    /\ call' = [op |-> op,
                override |-> override,
                data |-> RequestData(op, client.config, override)]
    /\ answer' = NoResult
    /\ posted' = NoResult
    /\ outcome' = NoResult
    /\ pc' = "cl_post"
    /\ UNCHANGED <<fs, insts, cur, indicators, confidence, version, result,
                   swResult, content, extracted, routeVars, validateVars,
                   heapVars, client, ctor, sent>>

\* self.http_client.post(path, request_data): the session gets the
\* request and ends with a
ClientPost(a) ==
    /\ pc = "cl_post"
    /\ sent' = Append(sent, [endpoint |-> client.http_client.api_endpoint,
                             path |-> ApiPath(call.op),
                             json |-> call.data,
                             timeout |-> client.http_client.timeout])
    /\ answer' = a
    /\ posted' = post(client.http_client, ApiPath(call.op), call.data, a)
    /\ pc' = "cl_finish"
    /\ UNCHANGED <<fs, insts, cur, indicators, confidence, version, result,
                   swResult, content, extracted, routeVars, validateVars,
                   heapVars, client, ctor, call, outcome>>

\* the result model is built and returned, or the handler of the
\* operation raises
ClientFinish ==
    /\ pc = "cl_finish"
    /\ outcome' = ClientResult(call.op, posted)
    /\ pc' = IF outcome'.raised = "None" THEN "returned" ELSE "raised"
    /\ UNCHANGED <<fs, insts, cur, indicators, confidence, version, result,
                   swResult, content, extracted, routeVars, validateVars,
                   heapVars, client, ctor, call, answer, posted, sent>>

\* validate_setup() is called on instance i: the three empty lists
ValidateSetup(i) ==
    /\ pc = "idle"
    /\ cur' = i
    /\ pc' = IF insts[i].kind = DJANGO THEN "dj_v_settings" ELSE "fl_v_app"
    /\ errors' = ValidateLocals.errors
    /\ warnings' = ValidateLocals.warnings
    /\ suggestions' = ValidateLocals.suggestions
    /\ UNCHANGED <<fs, insts, indicators, confidence, version, result,
                   swResult, content, extracted, routeVars, heapVars,
                   clientVars>>

\* one check of the running validate_setup(): the existence test's stat()
\* either answers, and the check yields the locals st, or fails with an
\* OSError, which no handler of validate_setup() catches
ValidateCheck(at, nxt, st, stat) ==
    /\ pc = at
    /\ IF stat = "ok"
       THEN /\ pc' = nxt
            /\ errors' = st.errors
            /\ warnings' = st.warnings
            /\ suggestions' = st.suggestions
       ELSE /\ pc' = "raised"
            /\ errors' = <<>>
            /\ warnings' = <<>>
            /\ suggestions' = <<>>
    /\ UNCHANGED <<fs, insts, cur, indicators, confidence, version, result,
                   swResult, content, extracted, routeVars, heapVars,
                   clientVars>>

DjangoValidateCheckSettings(stat) ==
    ValidateCheck("dj_v_settings", "dj_v_static",
                  DjangoValidateSettings(insts[cur], ValidateState), stat)

DjangoValidateCheckStatic(stat) ==
    ValidateCheck("dj_v_static", "dj_v_urls",
                  DjangoValidateStatic(insts[cur], ValidateState), stat)

DjangoValidateCheckUrls(stat) ==
    ValidateCheck("dj_v_urls", "v_return",
                  DjangoValidateUrls(insts[cur], ValidateState), stat)

FlaskValidateCheckApp(stat) ==
    ValidateCheck("fl_v_app", "v_return",
                  FlaskValidateApp(insts[cur], ValidateState), stat)

\* the return statement of validate_setup()
ValidateReturn ==
    /\ pc = "v_return"
    /\ pc' = "returned"
    /\ result' = ValidationResult(ValidateState)
    /\ UNCHANGED <<fs, insts, cur, indicators, confidence, version,
                   swResult, content, extracted, ext>>

\* the steps of a running validate_setup()
ValidateSteps ==
    \/ \E stat \in StatOutcomes : DjangoValidateCheckSettings(stat)
    \/ \E stat \in StatOutcomes : DjangoValidateCheckStatic(stat)
    \/ \E stat \in StatOutcomes : DjangoValidateCheckUrls(stat)
    \/ \E stat \in StatOutcomes : FlaskValidateCheckApp(stat)
    \/ ValidateReturn
    \/ CallerResumes

\* generate_service_worker_config() that also creates the static/
\* directory its first caching rule serves
GenerateServiceWorkerConfigMakingStatic(i) ==
    /\ pc = "idle"
    /\ swResult' = [swResult EXCEPT
                      ![i] = generate_service_worker_config(insts[i])]
    /\ fs' = [fs EXCEPT ![insts[i].project_path]["static"] = Dir]
    /\ UNCHANGED <<insts, pc, cur, indicators, confidence, version,
                   result, content, extracted,
                   ext>>

\* generate_service_worker_config() is called on instance i and returns
GenerateServiceWorkerConfig(i) ==
    /\ pc = "idle"
    /\ swResult' = [swResult EXCEPT
                      ![i] = generate_service_worker_config(insts[i])]
    /\ UNCHANGED <<fs, insts, pc, cur, indicators, confidence, version,
                   result, content, extracted,
                   ext>>

\* get_secure_routes() is called on instance i and returns
GetSecureRoutes(i) ==
    /\ pc = "idle"
    /\ secureRoutes' = [secureRoutes EXCEPT
                          ![i] = get_secure_routes(insts[i])]
    /\ UNCHANGED <<fs, insts, pc, cur, indicators, confidence, version,
                   result, swResult, content, extracted, request,
                   validateVars, heapVars, clientVars>>

\* _extract_django_version_from_requirements is applied to the text
Extract ==
    /\ extracted = NotRun
    /\ extracted' = _extract_django_version_from_requirements(content)
    /\ UNCHANGED <<fs, insts, pc, cur, indicators, confidence, version,
                   result, swResult, content,
                   ext>>

\* the steps of a running detect()
DetectSteps ==
    \/ \E stat \in StatOutcomes : DjangoCheckManage(stat)
    \/ \E stat \in StatOutcomes : DjangoCheckSettings(stat)
    \/ \E stat \in StatOutcomes : DjangoCheckUrls(stat)
    \/ \E stat \in StatOutcomes : DjangoCheckRequirements(stat)
    \/ \E stat \in StatOutcomes : DjangoCheckPyproject(stat)
    \/ \E stat \in StatOutcomes : FlaskCheckApp(stat)
    \/ \E stat \in StatOutcomes : FlaskCheckRequirements(stat)
    \/ \E stat \in StatOutcomes : FlaskCheckStructure(stat)
    \/ DetectReturn
    \/ CallerResumes

\* detection on a changing project tree
Next ==
    \/ \E e \in Entries : \E n \in NodesOf(e) : FsWrite("/p1", e, n)
    \/ \E i \in InstIds : Detect(i)
    \/ DetectSteps

Spec == Init /\ [][Next]_vars

----------------------------------------------------------------------------
(* The version extractor on its own *)

\* symbols of the exhaustively enumerated texts
ExtractAlphabet == {"Django", "django", "=", "4", "2", ".", "x"}

\* longer requirements texts
ExtractExamples ==
    { <<"Django", "=", "=", "4", ".", "2", ".", "0">>,
      <<"Django", ">", "=", "4", ".", "0">>,
      <<"Django", "~", "=", "4">>,
      <<"Django", "=", "=", "4", ".", "2", ".", "0", "\n",
        "x", "=", "=", "2", ".", "2", "8", ".", "0">>,
      <<"x", "=", "=", "2", "\n", "DJANGO", ">", "=", "3", ".", "2", ",",
        "<", "5", ".", "0">>,
      <<"django", "-", "x", "=", "=", "2", ".", "0", "\n",
        "Django", "=", "=", "3", ".", "2">>,
      <<"Django", "=", "=", "4", ".", "2", ".", "1", ".", "7">>,
      <<"Django", " ", ">", "=", " ", "4", ".", "0">>,
      <<"Django", "!", "=", "1", "0", ".", "0", "\n",
        "django", "<", "5">> }

ExtractInputs ==
    ExtractExamples \cup
    UNION {[1..n -> ExtractAlphabet] : n \in 0..MaxLen}

\* the extractor is about to be applied to one text
InitExtract ==
    /\ InitCommon
    /\ insts = [i \in InstIds |->
                  Integration(IF i = 1 THEN DJANGO ELSE FLASK, "/p1")]
    /\ content \in ExtractInputs
    /\ request = <<>>

NextExtract == Extract

SpecExtract == InitExtract /\ [][NextExtract]_vars

----------------------------------------------------------------------------
(* Configuration derivation by two instances of any kinds on any paths *)

\* entries changed on disk while configurations are derived
ConfigEntries == {"manage.py", "static"}

InitConfig ==
    /\ InitCommon
    /\ insts \in [InstIds -> {Integration(k, p) : k \in Kinds, p \in Paths}]
    /\ content = <<>>
    /\ request = <<>>

NextConfig ==
    \/ \E p \in Paths : \E e \in ConfigEntries : \E n \in NodesOf(e) :
          FsWrite(p, e, n)
    \/ \E i \in InstIds : GenerateServiceWorkerConfig(i)
    \/ \E i \in InstIds : Detect(i)
    \/ DetectSteps

SpecConfig == InitConfig /\ [][NextConfig]_vars

----------------------------------------------------------------------------
(* validate_setup() on a changing project tree *)

\* texts written to settings.py
SettingsTexts ==
    { <<>>,
      <<"STATIC_URL", "=", "x">>,
      <<"STATIC_ROOT", "=", "x">>,
      <<"STATIC_URL", "=", "x", "\n", "STATIC_ROOT", "=", "x">>,
      <<"static_url", "=", "x", "\n", "OLD_STATIC_URL_2", "=", "x">> }

\* the entries validate_setup() looks at
ValidateEntries == {"settings.py", "settings", "urls.py", "app.py",
                   "application.py"}

\* what may stand at an entry while setups are validated
ValidateNodesOf(e) ==
    IF e = "settings.py"
    THEN {Absent, Dir, Binary} \cup {File(t) : t \in SettingsTexts}
    ELSE NodesOf(e)

NextValidate ==
    \/ \E e \in ValidateEntries : \E n \in ValidateNodesOf(e) :
          FsWrite("/p1", e, n)
    \/ \E i \in InstIds : ValidateSetup(i)
    \/ ValidateSteps

SpecValidate == Init /\ [][NextValidate]_vars

----------------------------------------------------------------------------
(* Long-lived instances: detect() and validate_setup() called again and *)
(* again while the project tree changes                                  *)

\* the entries changed between the calls
CallsEntries == {"manage.py", "settings.py", "urls.py", "requirements.txt",
                "app.py", "static"}

\* what may stand at an entry between the calls
CallsNodesOf(e) ==
    IF e = "settings.py"
    THEN {Absent, File(<<>>), File(<<"STATIC_URL", "=", "x">>)}
    ELSE IF e = "requirements.txt"
    THEN {Absent, Binary,
          File(<<"Django", "=", "=", "4", ".", "2", ".", "0", "\n",
                 "x", "=", "=", "2">>),
          File(<<"Flask", "=", "=", "2", ".", "3", ".", "0">>)}
    ELSE NodesOf(e)

\* the calls of a long-lived instance, none of them clearing anything
\* when it is over
NextCalls ==
    \/ \E e \in CallsEntries : \E n \in CallsNodesOf(e) :
          FsWrite("/p1", e, n)
    \/ \E i \in InstIds : Detect(i)
    \/ \E i \in InstIds : ValidateSetup(i)
    \/ \E stat \in StatOutcomes : DjangoCheckManage(stat)
    \/ \E stat \in StatOutcomes : DjangoCheckSettings(stat)
    \/ \E stat \in StatOutcomes : DjangoCheckUrls(stat)
    \/ \E stat \in StatOutcomes : DjangoCheckRequirements(stat)
    \/ \E stat \in StatOutcomes : DjangoCheckPyproject(stat)
    \/ \E stat \in StatOutcomes : FlaskCheckApp(stat)
    \/ \E stat \in StatOutcomes : FlaskCheckRequirements(stat)
    \/ \E stat \in StatOutcomes : FlaskCheckStructure(stat)
    \/ DetectReturn
    \/ \E stat \in StatOutcomes : DjangoValidateCheckSettings(stat)
    \/ \E stat \in StatOutcomes : DjangoValidateCheckStatic(stat)
    \/ \E stat \in StatOutcomes : DjangoValidateCheckUrls(stat)
    \/ \E stat \in StatOutcomes : FlaskValidateCheckApp(stat)
    \/ ValidateReturn
    \/ CallerKeeps

SpecCalls == Init /\ [][NextCalls]_vars

----------------------------------------------------------------------------
(* Callers that mutate what they were returned *)

NextFresh ==
    \/ \E n \in NodesOf("manage.py") : FsWrite("/p1", "manage.py", n)
    \/ \E i \in InstIds : \E op \in Ops : Call(i, op)
    \/ \E a \in 1..Len(heap) :
          \E v \in Mutations(heap[a].op, heap[a].value) : Mutate(a, v)
    \/ CallerKeeps

SpecFresh == Init /\ [][NextFresh]_vars

----------------------------------------------------------------------------
(* The SDK client against the Core API *)

\* the empty dict
EmptyDict == [k \in {} |-> k]

\* the dicts d extended by key k with each value of V, and d themselves
WithKey(D, k, V) == D \cup {d @@ (k :> v) : d \in D, v \in V}

\* configuration dicts handed to the constructor: each key left out or
\* given a value in or out of its range
ConfigDicts ==
    WithKey(WithKey(WithKey(WithKey({EmptyDict},
        "project_root", {"/p1", "/nowhere"}),
        "timeout", {0, 1, 300, 301}),
        "backend", {"django", "rails"}),
        "caching_strategy", {"aggressive", "turbo"})

\* override dicts handed to generate(); the empty one stands for None
Overrides ==
    {EmptyDict,
     "app_name" :> "Other",
     ("backend" :> "flask") @@ ("extra" :> "x")}

\* status codes of final responses
Statuses == {200, 201, 300, 304, 400, 404, 429, 500, 503}

\* response bodies: the JSON objects of the three result models, an empty
\* JSON object, a JSON array, and text that is not JSON
Bodies ==
    { [text |-> "{scan}", shape |-> "object",
       keys |-> {"framework", "features", "assets"}],
      [text |-> "{generation}", shape |-> "object",
       keys |-> {"success", "manifest", "service_worker"}],
      [text |-> "{validation}", shape |-> "object",
       keys |-> {"valid", "score"}],
      [text |-> "{}", shape |-> "object", keys |-> {}],
      [text |-> "[]", shape |-> "array", keys |-> {}],
      [text |-> "<html>", shape |-> "invalid", keys |-> {}] }

\* what session.post can end with
Answers ==
    {[kind |-> k, status |-> 0, body |-> NoBody] :
        k \in {"ConnectTimeout", "ReadTimeout", "ConnectionError",
               "TooManyRedirects"}}
    \cup {[kind |-> "response", status |-> st, body |-> b] :
            st \in Statuses, b \in Bodies}

NextClient ==
    \/ \E d \in ConfigDicts : Construct(d)
    \/ ConstructConfig
    \/ \E stat \in StatOutcomes : ConstructRoot(stat)
    \/ ConstructHttp
    \/ \E op \in ClientOps : \E o \in Overrides :
          (op # "generate" => o = EmptyDict) /\ ClientCall(op, o)
    \/ \E a \in Answers : ClientPost(a)
    \/ ClientFinish
    \/ CallerKeeps

SpecClient == Init /\ [][NextClient]_vars

----------------------------------------------------------------------------
(* The derived rules against the requests a service worker intercepts *)

\* path segments of the requests: the prefixes the rules and the route
\* globs name, and one that none of them names
Segments == {"admin", "api", "auth", "dashboard", "static", "media", "x"}

\* a request path, as its segments: /admin/x is <<"admin", "x">>
RequestPaths == UNION {[1..n -> Segments] : n \in 0..MaxSegs}

\* two integrations of any kinds, and one intercepted request
InitRoutes ==
    /\ InitCommon
    /\ insts \in [InstIds -> {Integration(k, "/p1") : k \in Kinds}]
    /\ content = <<>>
    /\ request \in RequestPaths

NextRoutes ==
    \/ \E i \in InstIds : GenerateServiceWorkerConfig(i)
    \/ \E i \in InstIds : GetSecureRoutes(i)

SpecRoutes == InitRoutes /\ [][NextRoutes]_vars

----------------------------------------------------------------------------
(* Every operation of an integration, called in any sequence *)

\* the entries the tests or the user write between the calls
FrameEntries == {"manage.py", "app.py", "static"}

\* the operations that build their value in one return statement
FrameOps == {"generate_manifest_variables", "inject_middleware"}

NextFrame ==
    \/ \E e \in FrameEntries : \E n \in NodesOf(e) : FsWrite("/p1", e, n)
    \/ \E i \in InstIds : Detect(i)
    \/ DetectSteps
    \/ \E i \in InstIds : ValidateSetup(i)
    \/ ValidateSteps
    \/ \E i \in InstIds : GenerateServiceWorkerConfig(i)
    \/ \E i \in InstIds : \E op \in FrameOps : Call(i, op)
    \/ CallerKeeps

SpecFrame == Init /\ [][NextFrame]_vars

----------------------------------------------------------------------------
(* Vocabulary of the properties *)

\* the integration whose call runs, and the tree it is bound to
Running == insts[cur]
Tree == fs[insts[cur].project_path]

\* LOW < MEDIUM < HIGH
Rank(c) == IF c = LOW THEN 0 ELSE IF c = MEDIUM THEN 1 ELSE 2

Range(q) == {q[i] : i \in 1..Len(q)}

\* a readable manifest whose text holds the framework's name in any case
Mentions(kind, node) ==
    /\ node.kind = "file"
    /\ \E i \in 1..Len(node.text) : LowerSym(node.text[i]) = kind

\* the primary marker: manage.py; app.py or application.py
PrimaryPresent(kind, t) ==
    IF kind = DJANGO
    THEN t["manage.py"].kind # "absent"
    ELSE t["app.py"].kind # "absent" \/ t["application.py"].kind # "absent"

\* a secondary marker file or directory
SecondaryMarkerPresent(kind, t) ==
    IF kind = DJANGO
    THEN \/ t["settings.py"].kind # "absent"
         \/ t["settings"].kind = "dir"
         \/ t["urls.py"].kind # "absent"
    ELSE t["templates"].kind = "dir" \/ t["static"].kind = "dir"

\* no evidence signal at all: no marker, no manifest naming the framework
NoEvidence(kind, t) ==
    /\ ~PrimaryPresent(kind, t)
    /\ ~SecondaryMarkerPresent(kind, t)
    /\ ~Mentions(kind, t["requirements.txt"])
    /\ kind = DJANGO => ~Mentions(kind, t["pyproject.toml"])

\* a manifest the integration's own token test accepts
ManifestAccepted(kind, t) ==
    IF kind = DJANGO
    THEN \/ /\ t["requirements.txt"].kind = "file"
            /\ DjangoInRequirements(t["requirements.txt"].text)
         \/ /\ t["pyproject.toml"].kind = "file"
            /\ DjangoInPyproject(t["pyproject.toml"].text)
    ELSE /\ t["requirements.txt"].kind = "file"
         /\ FlaskInRequirements(t["requirements.txt"].text)

\* a detect() run is between its first check and its return statement
InRun == pc \notin {"idle", "returned", "raised"}

----------------------------------------------------------------------------
(* Properties of detect() *)

\* C1: whenever detect() of either integration returns, detected is true
\* if and only if the returned indicators sequence is non-empty.
C1_DetectedIffIndicators ==
    pc = "returned" => (result.detected <=> Len(result.indicators) > 0)

\* C1 happens: a run returned indicators while its confidence stayed LOW
C1_Witness ==
    /\ pc = "returned"
    /\ result.detected
    /\ result.confidence = LOW
    /\ Len(result.indicators) > 0

\* C2: on a tree with none of the integration's evidence signals (no
\* marker file or directory, no manifest naming the framework), the value
\* detect() returns is detected = false, confidence = LOW, no indicators,
\* no version.
C2_NoEvidenceNotDetected ==
    (pc = "returned" /\ NoEvidence(Running.kind, Tree)) =>
        /\ result.detected = FALSE
        /\ result.confidence = LOW
        /\ result.indicators = <<>>
        /\ result.version = None

\* C2 happens: detect() returned on a tree that holds files, among them a
\* requirements.txt, a settings file that is no directory, and the other
\* framework's markers, but no signal of its own
C2_Witness ==
    /\ pc = "returned"
    /\ Running.kind = DJANGO
    /\ NoEvidence(DJANGO, Tree)
    /\ Tree["requirements.txt"].kind = "file"
    /\ Tree["settings"].kind = "file"
    /\ Tree["app.py"].kind = "file"

\* C3: within a detect() run confidence starts at LOW, never decreases
\* from one check to the next, and rises by at most one level, and only
\* together with an indicator being appended.
C3_ConfidenceMonotone ==
    [][ /\ (pc = "idle" /\ pc' # "idle") => confidence' = LOW
        /\ (InRun /\ pc' # "raised") =>
              /\ Rank(confidence') >= Rank(confidence)
              /\ Rank(confidence') - Rank(confidence) <= 1
              /\ Rank(confidence') - Rank(confidence)
                    <= Len(indicators') - Len(indicators)
      ]_vars

\* C3 happens: a Django run reached HIGH with all five signals found
C3_Witness ==
    /\ pc = "return"
    /\ Running.kind = DJANGO
    /\ confidence = HIGH
    /\ Len(indicators) = 5

C5_DetectNeverRaises == pc # "raised"

\* the text with the names of framework `kind` written as "Django" and
\* any other framework name as a plain symbol, so that the extractor's
\* pattern reads the constraints of `kind`
AsDjangoText(kind, text) ==
    [i \in 1..Len(text) |->
        IF LowerSym(text[i]) = kind THEN "Django"
        ELSE IF text[i] \in DjangoNames \cup FlaskNames THEN "x"
        ELSE text[i]]

\* the normalized version of the framework's first parsable constraint in
\* a manifest, None when the manifest is unreadable or holds none
ManifestVersion(kind, node) ==
    IF node.kind = "file"
    THEN _extract_django_version_from_requirements(
             AsDjangoText(kind, node.text))
    ELSE None

\* the version the manifests of a tree give for a framework
TreeVersion(kind, t) ==
    IF ManifestVersion(kind, t["requirements.txt"]) # None
    THEN ManifestVersion(kind, t["requirements.txt"])
    ELSE ManifestVersion(kind, t["pyproject.toml"])

\* C6: for Django and for Flask, detect() returns the normalized version
\* of the framework's parsable constraint when requirements.txt or
\* pyproject.toml is present and holds one, and no version otherwise.
C6_VersionFromManifests ==
    pc = "returned" => result.version = TreeVersion(Running.kind, Tree)

\* the label of a manifest's signal
ManifestLabel(kind, m) ==
    IF kind = DJANGO
    THEN IF m = "requirements.txt" THEN "requirements.txt: Django"
         ELSE "pyproject.toml: django"
    ELSE IF m = "requirements.txt" THEN "requirements.txt: Flask"
         ELSE "pyproject.toml: flask"

\* C7: a manifest (requirements.txt or pyproject.toml) whose text holds
\* the framework's name in any letter case is a corroborating signal: its
\* label is among the returned indicators, and with the primary marker
\* present the returned confidence is HIGH.
C7_ManifestAnyCase ==
    pc = "returned" =>
        \A m \in Manifests :
            Mentions(Running.kind, Tree[m]) =>
                /\ ManifestLabel(Running.kind, m) \in Range(result.indicators)
                /\ PrimaryPresent(Running.kind, Tree)
                      => result.confidence = HIGH

----------------------------------------------------------------------------
(* Properties of the version extractor *)

OnlyDigits(q) == Len(q) > 0 /\ \A i \in 1..Len(q) : q[i] \in Digits

\* exactly three non-empty runs of digits, separated by two dots
ThreeNumeric(v) ==
    \E i \in 2..Len(v) - 3 : \E j \in i + 2..Len(v) - 1 :
        /\ v[i] = "." /\ v[j] = "."
        /\ OnlyDigits(SubSeq(v, 1, i - 1))
        /\ OnlyDigits(SubSeq(v, i + 1, j - 1))
        /\ OnlyDigits(SubSeq(v, j + 1, Len(v)))

\* position i of s starts a version constraint: the framework name in
\* any case, then comparison characters (or none), then a digit
ConstraintAt(s, i) ==
    /\ LowerSym(s[i]) = "django"
    /\ \E j \in i + 1..Len(s) :
          /\ s[j] \in Digits
          /\ \A k \in i + 1..j - 1 : s[k] \in OpChars

ConstraintPositions(s) == {i \in 1..Len(s) : ConstraintAt(s, i)}

Min(S) == CHOOSE x \in S : \A y \in S : x <= y

\* C8: the extractor returns a version exactly when the text holds the
\* framework name followed by a version, and then three dot-separated
\* numeric components, an omitted minor or patch being "0":
\* Django==4.2.0 gives 4.2.0, Django>=4.0 gives 4.0.0, Django~=4 gives
\* 4.0.0, a lone constraint "name ops major" gives major.0.0 and
\* "name ops major.minor" gives major.minor.0; otherwise it returns None.
C8_ThreeComponents ==
    extracted # NotRun =>
        /\ (ConstraintPositions(content) = {}) <=> (extracted = None)
        /\ extracted # None => ThreeNumeric(extracted)
        /\ content = <<"Django", "=", "=", "4", ".", "2", ".", "0">>
              => extracted = <<"4", ".", "2", ".", "0">>
        /\ content = <<"Django", ">", "=", "4", ".", "0">>
              => extracted = <<"4", ".", "0", ".", "0">>
        /\ content = <<"Django", "~", "=", "4">>
              => extracted = <<"4", ".", "0", ".", "0">>
        /\ \A k \in 1..Len(content) - 1 :
              ( /\ LowerSym(content[1]) = "django"
                /\ \A i \in 2..k : content[i] \in OpChars
                /\ OnlyDigits(SubSeq(content, k + 1, Len(content))) )
              => extracted = SubSeq(content, k + 1, Len(content))
                                \o <<".", "0", ".", "0">>
        /\ \A k \in 1..Len(content) - 3 : \A d \in k + 2..Len(content) - 1 :
              ( /\ LowerSym(content[1]) = "django"
                /\ \A i \in 2..k : content[i] \in OpChars
                /\ OnlyDigits(SubSeq(content, k + 1, d - 1))
                /\ content[d] = "."
                /\ OnlyDigits(SubSeq(content, d + 1, Len(content))) )
              => extracted = SubSeq(content, k + 1, Len(content))
                                \o <<".", "0">>

\* C8 happens: a constraint with only a major component was normalized
C8_Witness ==
    /\ content = <<"django", "=", "4", "2">>
    /\ extracted = <<"4", "2", ".", "0", ".", "0">>

\* the text from its first constraint up to, not including, its second
FirstConstraintAlone(s) ==
    LET P == ConstraintPositions(s)
        f == Min(P)
        later == {i \in P : i > f}
    IN  SubSeq(s, f, IF later = {} THEN Len(s) ELSE Min(later) - 1)

\* C9: when the text holds several version constraints, the extractor
\* returns the normalization of the first one in document order: its
\* result starts with the first digit of the first constraint and equals
\* what it returns for the first constraint with all later ones cut off.
C9_FirstConstraintWins ==
    (extracted # NotRun /\ ConstraintPositions(content) # {}) =>
        /\ extracted # None
        /\ LET f == Min(ConstraintPositions(content))
               j == Min({k \in f + 1..Len(content) : content[k] \in Digits})
           IN  extracted[1] = content[j]
        /\ extracted = _extract_django_version_from_requirements(
                           FirstConstraintAlone(content))

\* C9 happens: two constraints with different versions, the first returned
C9_Witness ==
    /\ content = <<"Django", "!", "=", "1", "0", ".", "0", "\n",
                   "django", "<", "5">>
    /\ Cardinality(ConstraintPositions(content)) >= 2
    /\ extracted = <<"1", "0", ".", "0", ".", "0">>

----------------------------------------------------------------------------
(* Properties of generate_service_worker_config() *)

\* C10: the configurations two integrations of the same kind returned are
\* identical, whatever their project paths and whatever the project trees
\* were when each was called, and every configuration returned has
\* skip_waiting = true, clients_claim = true, navigation_preload = false.
C10_ConfigByKindOnly ==
    /\ \A i \in InstIds : \A j \in InstIds :
          ( /\ swResult[i] # NoResult
            /\ swResult[j] # NoResult
            /\ insts[i].kind = insts[j].kind )
          => swResult[i] = swResult[j]
    /\ \A i \in InstIds :
          swResult[i] # NoResult =>
              /\ swResult[i].skip_waiting = TRUE
              /\ swResult[i].clients_claim = TRUE
              /\ swResult[i].navigation_preload = FALSE

\* C10 happens: two integrations of one kind on different paths, whose
\* trees differ, have both returned a configuration
C10_Witness ==
    /\ insts[1].kind = insts[2].kind
    /\ insts[1].project_path # insts[2].project_path
    /\ fs[insts[1].project_path]["static"].kind = "dir"
    /\ fs[insts[2].project_path]["static"].kind = "absent"
    /\ swResult[1] # NoResult
    /\ swResult[2] # NoResult
    /\ swResult[1] = swResult[2]

----------------------------------------------------------------------------
(* Properties of the runtime-caching rules *)

\* a URL glob as its segments; ** stands for any number of segments
GlobSegments(p) ==
    CASE p = "/static/**" -> <<"static", "**">>
      [] p = "/media/**" -> <<"media", "**">>
      [] p = "/api/**" -> <<"api", "**">>
      [] p = "/admin/**" -> <<"admin", "**">>
      [] p = "/api/auth/**" -> <<"api", "auth", "**">>
      [] p = "/dashboard/**" -> <<"dashboard", "**">>
      [] p = "/**" -> <<"**">>

RECURSIVE GlobMatch(_, _)
\* the glob g (as segments) matches the request path r
GlobMatch(g, r) ==
    IF g = <<>> THEN r = <<>>
    ELSE IF Head(g) = "**"
         THEN GlobMatch(Tail(g), r) \/ (r # <<>> /\ GlobMatch(g, Tail(r)))
         ELSE r # <<>> /\ Head(r) = Head(g) /\ GlobMatch(Tail(g), Tail(r))

\* rule k of the sequence matches the request path
RuleMatches(rules, k, r) == GlobMatch(GlobSegments(rules[k].urlPattern), r)

\* first match in declaration order: the index of the rule that handles
\* the request, 0 when no rule matches
FirstMatch(rules, r) ==
    IF \E k \in 1..Len(rules) : RuleMatches(rules, k, r)
    THEN Min({k \in 1..Len(rules) : RuleMatches(rules, k, r)})
    ELSE 0

\* an admin pattern: a glob under /admin
AdminPattern(p) == Head(GlobSegments(p)) = "admin"

\* C11: in the runtime_caching sequence each integration returned, with
\* first-match resolution, a request matching an admin pattern of the
\* sequence is handled by a NetworkOnly rule, and no request matches two
\* rules that have different handlers.
C11_AdminNetworkOnlyNoOverlap ==
    \A i \in InstIds :
        swResult[i] # NoResult =>
            LET rules == swResult[i].runtime_caching
            IN  /\ \A k \in 1..Len(rules) :
                      ( /\ AdminPattern(rules[k].urlPattern)
                        /\ RuleMatches(rules, k, request) )
                      => rules[FirstMatch(rules, request)].handler
                            = "NetworkOnly"
                /\ \A j \in 1..Len(rules) : \A k \in 1..Len(rules) :
                      rules[j].handler # rules[k].handler
                      => ~( /\ RuleMatches(rules, j, request)
                            /\ RuleMatches(rules, k, request) )

\* C11 happens: the Django rules handle /admin/x/x by their fourth rule,
\* declared after the static, media and api rules
C11_Witness ==
    /\ insts[1].kind = DJANGO
    /\ swResult[1] # NoResult
    /\ request = <<"admin", "x", "x">>
    /\ FirstMatch(swResult[1].runtime_caching, request) = 4
    /\ swResult[1].runtime_caching[4].handler = "NetworkOnly"

\* C12: every request matching one of the integration's privileged route
\* globs (get_secure_routes()) is resolved by first match over the
\* integration's runtime_caching rules to a NetworkOnly rule.
C12_PrivilegedNetworkOnly ==
    \A i \in InstIds :
        (swResult[i] # NoResult /\ secureRoutes[i] # NoResult) =>
            LET rules == swResult[i].runtime_caching
                k == FirstMatch(rules, request)
            IN  (\E n \in 1..Len(secureRoutes[i]) :
                    GlobMatch(GlobSegments(secureRoutes[i][n]), request))
                => (k # 0 /\ rules[k].handler = "NetworkOnly")

----------------------------------------------------------------------------
(* Properties of validate_setup() *)

\* a validate_setup() call has returned its report
Validated == pc = "returned" /\ result.tag = "validation"

\* C13: whenever validate_setup() of either integration returns, isValid
\* is true if and only if the returned errors sequence is empty, whatever
\* the warnings and suggestions hold.
C13_ValidIffNoErrors ==
    Validated => (result.isValid <=> result.errors = <<>>)

\* C13 happens: a report with two warnings and a suggestion is valid
C13_Witness ==
    /\ Validated
    /\ Running.kind = DJANGO
    /\ result.isValid
    /\ result.errors = <<>>
    /\ Len(result.warnings) = 2
    /\ Len(result.suggestions) = 1

\* the framework's required structural file is absent: Django has neither
\* settings.py nor a settings/ directory, Flask neither app.py nor
\* application.py
RequiredStructureAbsent(kind, t) ==
    IF kind = DJANGO
    THEN t["settings.py"].kind = "absent" /\ t["settings"].kind # "dir"
    ELSE t["app.py"].kind = "absent" /\ t["application.py"].kind = "absent"

\* C14: when the framework's required structural file is absent, the
\* report validate_setup() returns holds at least one error and isValid is
\* false.
C14_MissingStructureIsError ==
    (Validated /\ RequiredStructureAbsent(Running.kind, Tree)) =>
        /\ Len(result.errors) >= 1
        /\ result.isValid = FALSE

----------------------------------------------------------------------------
(* Properties of long-lived instances *)

\* C15: on long-lived instances, after any interleaving of changes to the
\* project tree and calls of detect() and validate_setup(), each call
\* that returns gives exactly what a freshly constructed instance gives on
\* the tree as it is at the call; so repeated calls on an unchanged tree
\* return equal results.
C15_AsFreshInstance ==
    pc = "returned" =>
        result = IF result.tag = "detection"
                 THEN FreshDetect(Running)
                 ELSE FreshValidate(Running)

\* C15 happens: the Django instance reported the missing settings, the
\* tree then got its settings.py, and a later detect() of the same
\* instance returned the settings indicator
C15_Witness ==
    /\ pc = "returned"
    /\ Running.kind = DJANGO
    /\ result.tag = "detection"
    /\ errors # <<>>
    /\ Tree["settings.py"].kind = "file"
    /\ result.indicators = <<"manage.py", "settings.py or settings/">>
    /\ result = FreshDetect(Running)

----------------------------------------------------------------------------
(* Properties of the returned containers *)

\* C16: whenever a call of detect(), generate_service_worker_config(),
\* generate_manifest_variables(), validate_setup(), inject_middleware() or
\* a route-glob helper returns, on any instance, the container it returns
\* holds the unmodified value, whatever callers did to the containers
\* returned before.
C16_FreshContainers ==
    (pc = "returned" /\ ret # NoResult) =>
        /\ ~heap[ret.ref].mutated
        /\ heap[ret.ref].value = Returned(ret.op, insts[ret.inst])

\* C16 happens: a caller removed a rule from the runtime_caching it was
\* given, and the next call of the same instance returned all four rules
C16_Witness ==
    /\ pc = "returned"
    /\ Len(heap) = 2
    /\ ret = [ref |-> 2, op |-> "generate_service_worker_config", inst |-> 1]
    /\ heap[1].op = "generate_service_worker_config"
    /\ heap[1].kind = DJANGO
    /\ heap[1].mutated
    /\ Len(heap[1].value.runtime_caching) = 3
    /\ Len(heap[2].value.runtime_caching) = 4

----------------------------------------------------------------------------
(* Properties of the SDK client *)

\* the configuration has an invalid or missing required field, or its
\* project_root does not exist
BadConfiguration(d) ==
    \/ ~ConfigValid(d)
    \/ d.project_root \notin DOMAIN fs

\* C17: constructing the client with a configuration that has an invalid
\* or missing required field, or whose project_root does not exist, fails
\* with ConfigException, and no HTTP client was created and no request
\* sent.
C17_BadConfigIsConfigException ==
    (ctor # NoResult /\ BadConfiguration(ctor.input)) =>
        /\ ~ctor.done
        /\ pc = "raised" => ctor.raised = "ConfigException"
        /\ client # NoResult => client.http_client = NoResult
        /\ sent = <<>>

\* a failure inside the operation: the transport raised, or the response
\* does not make the result model
FailureInside ==
    posted.raised # "None" \/ ResultRaises(call.op, posted.value)

\* C18: a failure inside scan(), generate() or validate(), whatever the
\* transport raised or however the response is malformed, reaches the
\* caller as the exception of that operation (ScanException,
\* GenerationException, ValidationException) and as nothing else; without
\* a failure the operation returns the response.
C18_OperationKind ==
    outcome # NoResult =>
        /\ FailureInside => outcome.raised = OpException(call.op)
        /\ ~FailureInside =>
              (outcome.raised = "None" /\ outcome.value = posted.value)

\* C18 happens: generate() met a malformed 200 response after scan() had
\* met a timeout
C18_Witness ==
    /\ Len(sent) = 2
    /\ sent[1].path = "/api/scan"
    /\ call.op = "generate"
    /\ answer.kind = "response"
    /\ answer.status = 200
    /\ answer.body.shape = "array"
    /\ posted.raised = "None"
    /\ outcome # NoResult
    /\ outcome.raised = "GenerationException"

\* C19: HttpClient.post raises ApiUnreachableException on a connection
\* failure, TimeoutException when the timeout is exceeded, HttpException
\* carrying the status code and the body on any other response that is
\* not 2xx, and returns the parsed JSON body of a 2xx response.
C19_PostOutcomeKinds ==
    posted # NoResult =>
        /\ answer.kind = "ConnectionError"
              => posted.raised = "ApiUnreachableException"
        /\ answer.kind \in TimeoutErrors
              => posted.raised = "TimeoutException"
        /\ (answer.kind = "response" /\ answer.status \notin 200..299)
              => /\ posted.raised = "HttpException"
                 /\ posted.status = answer.status
                 /\ posted.text = answer.body.text
        /\ ( /\ answer.kind = "response"
              /\ answer.status \in 200..299
              /\ answer.body.shape # "invalid" )
              => (posted.raised = "None" /\ posted.value = answer.body)

\* the level the present signals call for: LOW without the primary marker,
\* MEDIUM with it alone, HIGH with it and a corroborating signal
LevelOfSignals(kind, t) ==
    IF ~PrimaryPresent(kind, t)
    THEN LOW
    ELSE IF \/ SecondaryMarkerPresent(kind, t)
            \/ ManifestAccepted(kind, t)
         THEN HIGH
         ELSE MEDIUM

SignalsInOrder(kind, t) ==
    IF kind = DJANGO
    THEN << [label |-> "manage.py",
             present |-> t["manage.py"].kind # "absent"],
            [label |-> "settings.py or settings/",
             present |-> \/ t["settings.py"].kind # "absent"
                         \/ t["settings"].kind = "dir"],
            [label |-> "urls.py",
             present |-> t["urls.py"].kind # "absent"],
            [label |-> "requirements.txt: Django",
             present |-> /\ t["requirements.txt"].kind = "file"
                         /\ DjangoInRequirements(t["requirements.txt"].text)],
            [label |-> "pyproject.toml: django",
             present |-> /\ t["pyproject.toml"].kind = "file"
                         /\ DjangoInPyproject(t["pyproject.toml"].text)] >>
    ELSE << [label |-> "app.py or application.py",
             present |-> \/ t["app.py"].kind # "absent"
                         \/ t["application.py"].kind # "absent"],
            [label |-> "requirements.txt: Flask",
             present |-> /\ t["requirements.txt"].kind = "file"
                         /\ FlaskInRequirements(t["requirements.txt"].text)],
            [label |-> "Flask structure (templates/ or static/)",
             present |-> \/ t["templates"].kind = "dir"
                         \/ t["static"].kind = "dir"] >>

\* the labels of the signals present in t, in check order
PresentLabels(kind, t) ==
    LET q == SelectSeq(SignalsInOrder(kind, t), LAMBDA r : r.present)
    IN  [i \in 1..Len(q) |-> q[i].label]

NamesWithin(sym) ==
    IF sym = "OLD_STATIC_URL_2" THEN {sym, "STATIC_URL"} ELSE {sym}

\* the content lacks the token
LacksToken(token, text) ==
    \A i \in 1..Len(text) : token \notin NamesWithin(text[i])

StaticUrlWarning == "STATIC_URL not found in settings.py"
StaticRootSuggestion == "Consider setting STATIC_ROOT for production"
UrlsWarning == "urls.py not found in project root"

\* C22: in Django validate_setup(), when settings.py is present and
\* readable, the STATIC_URL warning is in the returned warnings if and only
\* if the content lacks the token STATIC_URL, and the STATIC_ROOT
\* suggestion is in the returned suggestions if and only if the content
\* lacks the token STATIC_ROOT; neither finding, nor the missing-urls.py
\* warning, is ever in the returned errors.
C22_StaticFindings ==
    (Validated /\ Running.kind = DJANGO) =>
        /\ Tree["settings.py"].kind = "file" =>
              /\ StaticUrlWarning \in Range(result.warnings)
                    <=> LacksToken("STATIC_URL", Tree["settings.py"].text)
              /\ StaticRootSuggestion \in Range(result.suggestions)
                    <=> LacksToken("STATIC_ROOT", Tree["settings.py"].text)
        /\ Range(result.errors) \cap
              {StaticUrlWarning, StaticRootSuggestion, UrlsWarning} = {}

\* C22 happens: settings.py sets STATIC_ROOT and names STATIC_URL nowhere,
\* urls.py is missing: two warnings, no suggestion, no error
C22_Witness ==
    /\ Validated
    /\ Running.kind = DJANGO
    /\ Tree["settings.py"].kind = "file"
    /\ LacksToken("STATIC_URL", Tree["settings.py"].text)
    /\ ~LacksToken("STATIC_ROOT", Tree["settings.py"].text)
    /\ Tree["urls.py"].kind = "absent"
    /\ result.warnings = <<StaticUrlWarning, UrlsWarning>>
    /\ result.suggestions = <<>>
    /\ result.errors = <<>>

\* a step of a called operation, from its call to its return or raise: the
\* call is running before or after the step, or the step is a call of
\* generate_service_worker_config(), which returns at once
OperationStep ==
    pc # "idle" \/ pc' # "idle" \/ swResult' # swResult

\* C23: no step of detect(), validate_setup(),
\* generate_service_worker_config(), generate_manifest_variables() or
\* inject_middleware() changes the project tree (no entry is created,
\* written or deleted) or the instance (project_path and the identity
\* values id, name, framework, language), in any sequence of calls.
C23_OperationsOnlyRead ==
    [][ OperationStep =>
          /\ fs' = fs
          /\ \A i \in InstIds :
                /\ insts'[i].project_path = insts[i].project_path
                /\ Identity(insts'[i]) = Identity(insts[i])
      ]_vars

\* C23 happens: all five operations were called (the locals of a Flask
\* detect() are still in place, validate_setup() has just returned) and
\* the tree holds what was written to it and no more: app.py, and no
\* static/ directory although a configuration with the /static/** rule
\* was generated
C23_Witness ==
    /\ pc = "returned"
    /\ indicators = <<"app.py or application.py">>
    /\ result # NoResult
    /\ result.tag = "validation"
    /\ \A i \in InstIds : swResult[i] # NoResult
    /\ Len(heap) = 2
    /\ heap[1].op = "inject_middleware"
    /\ heap[2].op = "generate_manifest_variables"
    /\ Tree["app.py"].kind = "file"
    /\ Tree["static"].kind = "absent"
    /\ Tree["manage.py"].kind = "absent"

----------------------------------------------------------------------------
(* Properties of UniversalPwaClient.generate *)

\* the configuration the client was constructed with
OriginalConfig == Config(ctor.input)

\* map c with every key of map o taking precedence
WithPrecedence(c, o) ==
    [k \in DOMAIN c \cup DOMAIN o |->
        IF k \in DOMAIN o THEN o[k] ELSE c[k]]

\* the request the running call has just posted
LastSent == sent[Len(sent)]

\* C24: generate(override) posts to /api/generate the body {config: m}
\* where m is the configuration the client was constructed with, every
\* key of override taking precedence; the client's own configuration stays
\* as constructed through every call, so a later generate() without
\* override posts the original configuration, whether the call before it
\* returned or raised.
C24_GeneratePostsMerged ==
    /\ (ctor # NoResult /\ ctor.done) => client.config = OriginalConfig
    /\ (pc = "cl_finish" /\ call.op = "generate") =>
          /\ LastSent.path = "/api/generate"
          /\ LastSent.json =
                [config |-> WithPrecedence(OriginalConfig, call.override)]

\* C24 happens: a first generate() overrode backend and added a key, a
\* second one without override has posted the configuration as
\* constructed, backend django
C24_Witness ==
    /\ pc = "cl_finish"
    /\ Len(sent) = 2
    /\ call.op = "generate"
    /\ call.override = EmptyDict
    /\ sent[1].path = "/api/generate"
    /\ sent[1].json.config.backend = "flask"
    /\ "extra" \in DOMAIN sent[1].json.config
    /\ sent[2].json.config = OriginalConfig
    /\ sent[2].json.config.backend = "django"

====
